---- MODULE Spec2Model ----
(***************************************************************************)
(* Root-finding methods of metodos_cap2.py (bisseccao, regula_falsi,       *)
(* iterativo_linear, newton, secante) and the orchestrator main.           *)
(*                                                                         *)
(* Numbers are exact rationals <<n, d>> with d > 0 in lowest terms.        *)
(* <<0, 0>> stands for NaN and <<1, 0>>, <<-1, 0>> for the infinities, the *)
(* values IEEE arithmetic gives a division by zero that is not trapped.    *)
(* An expression is either opaque (its value at each point is arbitrary    *)
(* but fixed: it is chosen when the point is first evaluated and           *)
(* remembered in memo) or a quotient of two integer polynomials, which     *)
(* safe_eval computes.                                                     *)
(***************************************************************************)
EXTENDS Integers, Sequences, FiniteSets, TLC

VARIABLES
    mpc,       \* position of main; "direct" when a method is called on its own
    params,    \* the parameters main read from the input file
    results,   \* main's results dictionary
    method,    \* the method whose frame is active, "none" between calls
    pc,        \* "idle", "loop" (at the head of iteration fr.k), "returned", "raised"
    exc,       \* the exception the active call raised
    fr,        \* the local variables of the active call, under their source names
    args,      \* the numeric arguments the active call was made with
    memo,      \* the values the expressions have shown so far
    evals      \* the safe_eval calls of the active call, in order

vars == <<mpc, params, results, method, pc, exc, fr, args, memo, evals>>

(***************************************************************************)
(* Bounds of the model.                                                    *)
(***************************************************************************)
MaxIter == 3

(***************************************************************************)
(* Exact arithmetic.                                                       *)
(***************************************************************************)
None == <<>>
NaN == <<0, 0>>

AbsInt(n) == IF n < 0 THEN -n ELSE n

SignInt(n) == IF n < 0 THEN -1 ELSE IF n > 0 THEN 1 ELSE 0

RECURSIVE Gcd(_, _)
Gcd(m, n) == IF n = 0 THEN m ELSE Gcd(n, m % n)

Q(n, d) ==
    IF d = 0 THEN <<SignInt(n), 0>>
    ELSE LET g == Gcd(AbsInt(n), AbsInt(d))
             s == SignInt(d)
         IN  <<(s * n) \div g, (s * d) \div g>>

Num(n) == <<n, 1>>

Zero == Num(0)

Add(p, q) == Q(p[1] * q[2] + q[1] * p[2], p[2] * q[2])

Sub(p, q) == Q(p[1] * q[2] - q[1] * p[2], p[2] * q[2])

Mul(p, q) == Q(p[1] * q[1], p[2] * q[2])

Div(p, q) == Q(p[1] * q[2], p[2] * q[1])

AbsQ(p) == <<AbsInt(p[1]), p[2]>>

\* p < q; false when either side is NaN
Lt(p, q) == /\ p # NaN
            /\ q # NaN
            /\ IF p[2] = 0 \/ q[2] = 0 THEN Sub(p, q) = <<-1, 0>>
               ELSE p[1] * q[2] < q[1] * p[2]

\* a division by zero that yields inf or NaN instead of raising
DivRaises_Never(q) == FALSE

\* Python raises ZeroDivisionError on a float division by zero
DivRaises(q) == q = Zero

(***************************************************************************)
(* Expressions and safe_eval.                                              *)
(***************************************************************************)
Opaque(name) == [txt |-> name, num |-> <<>>, den |-> <<>>]

IsOpaque(e) == e.num = <<>>

\* the values an opaque expression may take
FVals == {Num(-2), Num(-1), Num(0), Num(1), Num(2)}

NoExpr == Opaque("")

RECURSIVE PolyFrom(_, _, _)
PolyFrom(coef, i, p) ==
    IF i > Len(coef) THEN Zero
    ELSE Add(Num(coef[i]), Mul(p, PolyFrom(coef, i + 1, p)))

EvalOk(w) == [ok |-> TRUE, v |-> w]

EvalFails == [ok |-> FALSE, v |-> NaN]

\* eval(expr) for a quotient of polynomials: any exception becomes the ValueError
Compute(e, p) ==
    LET d == PolyFrom(e.den, 1, p)
    IN  IF DivRaises(d) THEN EvalFails ELSE EvalOk(Div(PolyFrom(e.num, 1, p), d))

Known(m, e, p) == {t \in m : t[1] = e.txt /\ t[2] = p}

\* the outcomes safe_eval(e, p) can have when m is what the expressions have shown
safe_eval(m, e, p) ==
    IF Known(m, e, p) # {} THEN {t[3] : t \in Known(m, e, p)}
    ELSE IF IsOpaque(e) THEN {EvalOk(w) : w \in FVals} \cup {EvalFails}
    ELSE {Compute(e, p)}

Put(m, e, p, r) == m \cup {<<e.txt, p, r>>}

(***************************************************************************)
(* Frames, exceptions and the loop  for k in range(1, int(max_iter) + 1).  *)
(***************************************************************************)
EmptyFrame ==
    [f_expr |-> NoExpr, df_expr |-> NoExpr, g_expr |-> NoExpr, tol |-> None,
     max_iter |-> 0, rows |-> <<>>, k |-> 0, a |-> None, b |-> None, fa |-> None,
     fb |-> None, x_prev |-> None, x0 |-> None, x1 |-> None, x |-> None,
     fx |-> None, dfx |-> None, f_prev |-> None]

NoArgs == [a |-> None, b |-> None, x0 |-> None, x1 |-> None]

NoExc == [type |-> "", msg |-> ""]

EvalError == [type |-> "ValueError", msg |-> "Erro ao avaliar expressão"]

BisseccaoError ==
    [type |-> "ValueError", msg |-> "Bissecção requer f(a) e f(b) de sinais opostos."]

RegulaFalsiError ==
    [type |-> "ValueError", msg |-> "Regula Falsi requer f(a) e f(b) de sinais opostos."]

FloatDivisionError == [type |-> "ZeroDivisionError", msg |-> "float division by zero"]

NewtonError ==
    [type |-> "ZeroDivisionError", msg |-> "Derivada zero no método de Newton."]

SecanteError ==
    [type |-> "ZeroDivisionError", msg |-> "Denominador zero no método da Secante."]

FloatError == [type |-> "ValueError", msg |-> "could not convert string to float"]

\* the loop running once more than max_iter allows
LoopRange_OneMore(mi) == 1 .. (mi + 1)

LoopRange(mi) == 1 .. mi

\* where control goes after the iteration k ends without a break (k = 0: loop entry)
AfterIter(kk, mi) == IF (kk + 1) \in LoopRange(mi) THEN "loop" ELSE "returned"

\* the frame at that point: k advances only when the loop goes on
Advance(f) ==
    IF AfterIter(f.k, f.max_iter) = "loop" THEN [f EXCEPT !.k = f.k + 1] ELSE f

Goes(p, e, f, m, ev) ==
    /\ pc' = p
    /\ exc' = e
    /\ fr' = f
    /\ memo' = m
    /\ evals' = ev

Raises(e, f, m, ev) == Goes("raised", e, f, m, ev)

Continues(f, m, ev) == Goes(AfterIter(f.k, f.max_iter), NoExc, Advance(f), m, ev)

Breaks(f, m, ev) == Goes("returned", NoExc, f, m, ev)

Call(e, p) == <<e.txt, p>>

(***************************************************************************)
(* bisseccao and regula_falsi.                                             *)
(***************************************************************************)
Two == Num(2)

\* the sign test rejecting a zero product too
SameSign_OrZero(u, w) == ~Lt(Mul(u, w), Zero)

\* fa * fb > 0
SameSign(u, w) == Lt(Zero, Mul(u, w))

\* fa * fc < 0
SignChange(u, w) == Lt(Mul(u, w), Zero)

\* an estimate that is not the midpoint
Midpoint_Third(lo, hi) == Div(Add(lo, hi), Num(3))

Midpoint(lo, hi) == Div(Add(lo, hi), Two)

InterpDenom(fa_, fb_) == Sub(fb_, fa_)

Interpolate(lo, hi, fa_, fb_) ==
    Sub(hi, Div(Mul(fb_, Sub(hi, lo)), InterpDenom(fa_, fb_)))

\* a first erro of zero instead of NaN
BracketErr_Zero(c, xp) == IF xp # None THEN AbsQ(Sub(c, xp)) ELSE Zero

BracketErr(c, xp) == IF xp # None THEN AbsQ(Sub(c, xp)) ELSE NaN

BracketStop(fc, c, xp, t) ==
    \/ Lt(AbsQ(fc), t)
    \/ (xp # None /\ Lt(AbsQ(Sub(c, xp)), t))

BracketRow(kk, lo, hi, c, fc, err) ==
    ("iter" :> kk) @@ ("a" :> lo) @@ ("b" :> hi) @@ ("x" :> c)
        @@ ("f(x)" :> fc) @@ ("erro" :> err)

BracketUpdate(f, c, fc) ==
    IF SignChange(f.fa, fc)
    THEN [f EXCEPT !.b = c, !.fb = fc, !.x_prev = c]
    ELSE [f EXCEPT !.a = c, !.fa = fc, !.x_prev = c]

\* lines 59-64 and 82-87: both endpoints are evaluated, then the signs are tested
BracketEnter(fe, a0, b0, t, mi, err) ==
    LET f0 == [EmptyFrame EXCEPT !.f_expr = fe, !.a = a0, !.b = b0, !.tol = t,
                                 !.max_iter = mi]
    IN  \E ra \in safe_eval(memo, fe, a0) :
          LET m1 == Put(memo, fe, a0, ra)
          IN  IF ~ra.ok THEN Raises(EvalError, f0, m1, <<Call(fe, a0)>>)
              ELSE \E rb \in safe_eval(m1, fe, b0) :
                     LET m2 == Put(m1, fe, b0, rb)
                         ev == <<Call(fe, a0), Call(fe, b0)>>
                         f1 == [f0 EXCEPT !.fa = ra.v]
                         f2 == [f1 EXCEPT !.fb = rb.v]
                     IN  IF ~rb.ok THEN Raises(EvalError, f1, m2, ev)
                         ELSE IF SameSign(ra.v, rb.v) THEN Raises(err, f2, m2, ev)
                         ELSE Continues(f2, m2, ev)

\* lines 66-78 and 90-101 once the estimate c of this iteration is computed
BracketIter(c) ==
    \E r \in safe_eval(memo, fr.f_expr, c) :
      LET m1 == Put(memo, fr.f_expr, c, r)
          ev == Append(evals, Call(fr.f_expr, c))
          fc == r.v
          err == BracketErr(c, fr.x_prev)
          f1 == [fr EXCEPT !.rows = Append(@, BracketRow(fr.k, fr.a, fr.b, c, fc, err))]
      IN  IF ~r.ok THEN Raises(EvalError, fr, m1, ev)
          ELSE IF BracketStop(fc, c, fr.x_prev, fr.tol) THEN Breaks(f1, m1, ev)
          ELSE Continues(BracketUpdate(f1, c, fc), m1, ev)

bisseccao(fe, a0, b0, t, mi) ==
    /\ method' = "bisseccao"
    /\ args' = [NoArgs EXCEPT !.a = a0, !.b = b0]
    /\ BracketEnter(fe, a0, b0, t, mi, BisseccaoError)

regula_falsi(fe, a0, b0, t, mi) ==
    /\ method' = "regula_falsi"
    /\ args' = [NoArgs EXCEPT !.a = a0, !.b = b0]
    /\ BracketEnter(fe, a0, b0, t, mi, RegulaFalsiError)

BisseccaoIter ==
    /\ method = "bisseccao"
    /\ pc = "loop"
    /\ BracketIter(Midpoint(fr.a, fr.b))
    /\ UNCHANGED <<mpc, params, results, method, args>>

RegulaFalsiIter ==
    /\ method = "regula_falsi"
    /\ pc = "loop"
    /\ IF DivRaises(InterpDenom(fr.fa, fr.fb))
       THEN Raises(FloatDivisionError, fr, memo, evals)
       ELSE BracketIter(Interpolate(fr.a, fr.b, fr.fa, fr.fb))
    /\ UNCHANGED <<mpc, params, results, method, args>>

(***************************************************************************)
(* iterativo_linear.                                                       *)
(***************************************************************************)
StepErr(xn, xo) == AbsQ(Sub(xn, xo))

FixedStop(err, t) == Lt(err, t)

FixedRow(kk, xn, err) ==
    ("iter" :> kk) @@ ("x" :> xn) @@ ("g(x_prev)" :> xn) @@ ("erro" :> err)

iterativo_linear(ge, x0_, t, mi) ==
    /\ method' = "iterativo_linear"
    /\ args' = [NoArgs EXCEPT !.x0 = x0_]
    /\ Continues([EmptyFrame EXCEPT !.g_expr = ge, !.x0 = x0_, !.tol = t,
                                    !.max_iter = mi, !.x_prev = x0_],
                 memo, <<>>)

IterativoLinearIter ==
    /\ method = "iterativo_linear"
    /\ pc = "loop"
    /\ \E r \in safe_eval(memo, fr.g_expr, fr.x_prev) :
         LET m1 == Put(memo, fr.g_expr, fr.x_prev, r)
             ev == Append(evals, Call(fr.g_expr, fr.x_prev))
             err == StepErr(r.v, fr.x_prev)
             f1 == [fr EXCEPT !.x = r.v, !.rows = Append(@, FixedRow(fr.k, r.v, err))]
         IN  IF ~r.ok THEN Raises(EvalError, fr, m1, ev)
             ELSE IF FixedStop(err, fr.tol) THEN Breaks(f1, m1, ev)
             ELSE Continues([f1 EXCEPT !.x_prev = r.v], m1, ev)
    /\ UNCHANGED <<mpc, params, results, method, args>>

(***************************************************************************)
(* newton.                                                                 *)
(***************************************************************************)
\* the derivative test left out
ZeroDerivative_Never(d) == FALSE

ZeroDerivative(d) == d = Zero

NewtonUpdate(xo, fx_, dfx_) == Sub(xo, Div(fx_, dfx_))

\* both criteria required instead of either
NewtonStop_Both(fx_, err, t) == Lt(AbsQ(fx_), t) /\ Lt(err, t)

NewtonStop(fx_, err, t) == Lt(AbsQ(fx_), t) \/ Lt(err, t)

NewtonRow(kk, xn, fx_, dfx_, err) ==
    ("iter" :> kk) @@ ("x" :> xn) @@ ("f(x)" :> fx_) @@ ("f'(x)" :> dfx_)
        @@ ("erro" :> err)

newton(fe, dfe, x0_, t, mi) ==
    /\ method' = "newton"
    /\ args' = [NoArgs EXCEPT !.x0 = x0_]
    /\ Continues([EmptyFrame EXCEPT !.f_expr = fe, !.df_expr = dfe, !.x0 = x0_,
                                    !.tol = t, !.max_iter = mi, !.x = x0_],
                 memo, <<>>)

NewtonIter ==
    /\ method = "newton"
    /\ pc = "loop"
    /\ \E r \in safe_eval(memo, fr.f_expr, fr.x) :
         LET m1 == Put(memo, fr.f_expr, fr.x, r)
             e1 == Append(evals, Call(fr.f_expr, fr.x))
         IN  IF ~r.ok THEN Raises(EvalError, fr, m1, e1)
             ELSE \E d \in safe_eval(m1, fr.df_expr, fr.x) :
                    LET m2 == Put(m1, fr.df_expr, fr.x, d)
                        e2 == Append(e1, Call(fr.df_expr, fr.x))
                        f1 == [fr EXCEPT !.fx = r.v]
                        f2 == [f1 EXCEPT !.dfx = d.v]
                        x_new == NewtonUpdate(fr.x, r.v, d.v)
                        err == StepErr(x_new, fr.x)
                        f3 == [f2 EXCEPT !.x = x_new,
                                         !.rows = Append(@, NewtonRow(fr.k, x_new, r.v,
                                                                      d.v, err))]
                    IN  IF ~d.ok THEN Raises(EvalError, f1, m2, e2)
                        ELSE IF ZeroDerivative(d.v) THEN Raises(NewtonError, f2, m2, e2)
                        ELSE IF NewtonStop(r.v, err, fr.tol) THEN Breaks(f3, m2, e2)
                        ELSE Continues(f3, m2, e2)
    /\ UNCHANGED <<mpc, params, results, method, args>>

(***************************************************************************)
(* secante.                                                                *)
(***************************************************************************)
SecanteDenom(fx_, fp) == Sub(fx_, fp)

\* the denominator test left out
ZeroDenom_Never(d) == FALSE

ZeroDenom(d) == d = Zero

SecanteUpdate(xo, xp, fx_, d) == Sub(xo, Div(Mul(fx_, Sub(xo, xp)), d))

SecanteStop(fx_, err, t) == Lt(AbsQ(fx_), t) \/ Lt(err, t)

SecanteRow(kk, xp, xo, xn, fx_, err) ==
    ("iter" :> kk) @@ ("x_{k-1}" :> xp) @@ ("x_k" :> xo) @@ ("x_{k+1}" :> xn)
        @@ ("f(x_k)" :> fx_) @@ ("erro" :> err)

secante(fe, x0_, x1_, t, mi) ==
    /\ method' = "secante"
    /\ args' = [NoArgs EXCEPT !.x0 = x0_, !.x1 = x1_]
    /\ LET f0 == [EmptyFrame EXCEPT !.f_expr = fe, !.x0 = x0_, !.x1 = x1_, !.tol = t,
                                    !.max_iter = mi, !.x_prev = x0_, !.x = x1_]
       IN  \E rp \in safe_eval(memo, fe, x0_) :
             LET m1 == Put(memo, fe, x0_, rp)
             IN  IF ~rp.ok THEN Raises(EvalError, f0, m1, <<Call(fe, x0_)>>)
                 ELSE \E r \in safe_eval(m1, fe, x1_) :
                        LET m2 == Put(m1, fe, x1_, r)
                            ev == <<Call(fe, x0_), Call(fe, x1_)>>
                            f1 == [f0 EXCEPT !.f_prev = rp.v]
                        IN  IF ~r.ok THEN Raises(EvalError, f1, m2, ev)
                            ELSE Continues([f1 EXCEPT !.fx = r.v], m2, ev)

SecanteIter ==
    /\ method = "secante"
    /\ pc = "loop"
    /\ LET denom == SecanteDenom(fr.fx, fr.f_prev)
           x_new == SecanteUpdate(fr.x, fr.x_prev, fr.fx, denom)
           err == StepErr(x_new, fr.x)
           f1 == [fr EXCEPT !.rows = Append(@, SecanteRow(fr.k, fr.x_prev, fr.x, x_new,
                                                          fr.fx, err))]
       IN  IF ZeroDenom(denom) THEN Raises(SecanteError, fr, memo, evals)
           ELSE IF SecanteStop(fr.fx, err, fr.tol)
                THEN Breaks([f1 EXCEPT !.x = x_new], memo, evals)
           ELSE \E r \in safe_eval(memo, fr.f_expr, x_new) :
                  LET m1 == Put(memo, fr.f_expr, x_new, r)
                      ev == Append(evals, Call(fr.f_expr, x_new))
                      f2 == [f1 EXCEPT !.x_prev = fr.x, !.f_prev = fr.fx]
                  IN  IF ~r.ok THEN Raises(EvalError, f2, m1, ev)
                      ELSE Continues([f2 EXCEPT !.x = x_new, !.fx = r.v], m1, ev)
    /\ UNCHANGED <<mpc, params, results, method, args>>

(***************************************************************************)
(* A method called on its own, on an arbitrary function.                   *)
(***************************************************************************)
F == Opaque("f")

DF == Opaque("df")

G == Opaque("g")

Tols == {Q(1, 2), Num(1), Num(2)}

Brackets == {<<Num(0), Num(2)>>, <<Num(0), Num(1)>>, <<Num(1), Num(1)>>,
             <<Num(2), Num(0)>>}

Guesses == {Num(0), Num(1)}

GuessPairs == {<<Num(0), Num(1)>>, <<Num(1), Num(1)>>, <<Num(2), Num(0)>>}

MaxIters == 0 .. MaxIter

Idle == mpc = "direct" /\ pc = "idle"

CallBisseccao ==
    /\ Idle
    /\ \E br \in Brackets, t \in Tols, mi \in MaxIters : bisseccao(F, br[1], br[2], t, mi)
    /\ UNCHANGED <<mpc, params, results>>

CallRegulaFalsi ==
    /\ Idle
    /\ \E br \in Brackets, t \in Tols, mi \in MaxIters :
         regula_falsi(F, br[1], br[2], t, mi)
    /\ UNCHANGED <<mpc, params, results>>

CallIterativoLinear ==
    /\ Idle
    /\ \E g0 \in Guesses, t \in Tols, mi \in MaxIters : iterativo_linear(G, g0, t, mi)
    /\ UNCHANGED <<mpc, params, results>>

CallNewton ==
    /\ Idle
    /\ \E g0 \in Guesses, t \in Tols, mi \in MaxIters : newton(F, DF, g0, t, mi)
    /\ UNCHANGED <<mpc, params, results>>

CallSecante ==
    /\ Idle
    /\ \E gp \in GuessPairs, t \in Tols, mi \in MaxIters :
         secante(F, gp[1], gp[2], t, mi)
    /\ UNCHANGED <<mpc, params, results>>

(***************************************************************************)
(* main, from the point where the parameters are read (line 220).          *)
(***************************************************************************)
Poly(txt, num, den) == [txt |-> txt, num |-> num, den |-> den]

Functions == {NoExpr,
              Poly("x^2 - 2", <<-2, 0, 1>>, <<1>>),
              Poly("x^2 + 1", <<1, 0, 1>>, <<1>>),
              Poly("x^2 - x", <<0, -1, 1>>, <<1>>),
              Poly("1/x", <<1>>, <<0, 1>>)}

Derivatives == {NoExpr, Poly("2*x", <<0, 2>>, <<1>>)}

Iterations == {NoExpr, Poly("(x + 2/x)/2", <<2, 0, 1>>, <<0, 2>>)}

\* a value of the input file that is no number
Text == <<"abc">>

IsText(w) == Len(w) = 1

MainParams ==
    [function : Functions, derivative : Derivatives, g : Iterations,
     a : {None, Num(0), Text}, b : {None, Num(1), Num(2)},
     x0 : {None, Num(0), Num(1)}, x1 : {None, Num(2)},
     tol : {Q(1, 100)}, max_iter : MaxIters]

NoParams ==
    [function |-> NoExpr, derivative |-> NoExpr, g |-> NoExpr, a |-> None, b |-> None,
     x0 |-> None, x1 |-> None, tol |-> None, max_iter |-> 0]

Blocks == <<"Bissecção", "Iterativo Linear (Ponto Fixo)", "Newton", "Secante",
            "Regula Falsi">>

BlockNames == {Blocks[i] : i \in 1 .. Len(Blocks)}

AfterBlock(name) ==
    LET i == CHOOSE j \in 1 .. Len(Blocks) : Blocks[j] = name
    IN  IF i < Len(Blocks) THEN Blocks[i + 1] ELSE "write"

NoResults == [n \in {} |-> <<>>]

ErrorRow(e) == ("iter" :> 0) @@ ("erro_msg" :> e.msg)

Present(e) == e # NoExpr

Given(w) == w # None

\* float(w) of a parameter raises on text
FloatRaises(w) == IsText(w)

\* the else branch of a block: the method is not run
Skip ==
    /\ results' = (mpc :> <<>>) @@ results
    /\ mpc' = AfterBlock(mpc)
    /\ UNCHANGED <<method, pc, exc, fr, args, memo, evals>>

\* float() of an argument raises inside the try
ArgRaises(name) ==
    /\ method' = name
    /\ Raises(FloatError, EmptyFrame, memo, <<>>)
    /\ UNCHANGED <<mpc, results, args>>

MainBisseccao ==
    /\ mpc = "Bissecção"
    /\ pc = "idle"
    /\ IF Present(params.function) /\ Given(params.a) /\ Given(params.b)
       THEN IF FloatRaises(params.a) \/ FloatRaises(params.b)
            THEN ArgRaises("bisseccao")
            ELSE /\ bisseccao(params.function, params.a, params.b, params.tol,
                              params.max_iter)
                 /\ UNCHANGED <<mpc, results>>
       ELSE Skip
    /\ UNCHANGED params

MainIterativoLinear ==
    /\ mpc = "Iterativo Linear (Ponto Fixo)"
    /\ pc = "idle"
    /\ IF Present(params.g) /\ Given(params.x0)
       THEN IF FloatRaises(params.x0)
            THEN ArgRaises("iterativo_linear")
            ELSE /\ iterativo_linear(params.g, params.x0, params.tol, params.max_iter)
                 /\ UNCHANGED <<mpc, results>>
       ELSE Skip
    /\ UNCHANGED params

MainNewton ==
    /\ mpc = "Newton"
    /\ pc = "idle"
    /\ IF Present(params.function) /\ Present(params.derivative) /\ Given(params.x0)
       THEN IF FloatRaises(params.x0)
            THEN ArgRaises("newton")
            ELSE /\ newton(params.function, params.derivative, params.x0, params.tol,
                           params.max_iter)
                 /\ UNCHANGED <<mpc, results>>
       ELSE Skip
    /\ UNCHANGED params

MainSecante ==
    /\ mpc = "Secante"
    /\ pc = "idle"
    /\ IF Present(params.function) /\ Given(params.x0) /\ Given(params.x1)
       THEN IF FloatRaises(params.x0) \/ FloatRaises(params.x1)
            THEN ArgRaises("secante")
            ELSE /\ secante(params.function, params.x0, params.x1, params.tol,
                            params.max_iter)
                 /\ UNCHANGED <<mpc, results>>
       ELSE Skip
    /\ UNCHANGED params

MainRegulaFalsi ==
    /\ mpc = "Regula Falsi"
    /\ pc = "idle"
    /\ IF Present(params.function) /\ Given(params.a) /\ Given(params.b)
       THEN IF FloatRaises(params.a) \/ FloatRaises(params.b)
            THEN ArgRaises("regula_falsi")
            ELSE /\ regula_falsi(params.function, params.a, params.b, params.tol,
                                 params.max_iter)
                 /\ UNCHANGED <<mpc, results>>
       ELSE Skip
    /\ UNCHANGED params

\* the except clause keeping the records accumulated before the raise
BlockResult_KeepRows(p, e, rws) == rws

\* what a block leaves in results when its call ended
BlockResult(p, e, rws) == IF p = "raised" THEN <<ErrorRow(e)>> ELSE rws

\* results[...] = method(...), or the except clause of the block
MainStore ==
    /\ mpc \in BlockNames
    /\ pc \in {"returned", "raised"}
    /\ results' = (mpc :> BlockResult(pc, exc, fr.rows)) @@ results
    /\ mpc' = AfterBlock(mpc)
    /\ method' = "none"
    /\ pc' = "idle"
    /\ exc' = NoExc
    /\ fr' = EmptyFrame
    /\ args' = NoArgs
    /\ evals' = <<>>
    /\ UNCHANGED <<params, memo>>

\* write_txt_and_csv and the final print
MainWrite ==
    /\ mpc = "write"
    /\ mpc' = "done"
    /\ UNCHANGED <<params, results, method, pc, exc, fr, args, memo, evals>>

(***************************************************************************)
(* The specification.                                                      *)
(***************************************************************************)
Init ==
    /\ \/ mpc = "direct" /\ params = NoParams
       \/ mpc = Blocks[1] /\ params \in MainParams
    /\ results = NoResults
    /\ method = "none"
    /\ pc = "idle"
    /\ exc = NoExc
    /\ fr = EmptyFrame
    /\ args = NoArgs
    /\ memo = {}
    /\ evals = <<>>

Next ==
    \/ CallBisseccao
    \/ CallRegulaFalsi
    \/ CallIterativoLinear
    \/ CallNewton
    \/ CallSecante
    \/ BisseccaoIter
    \/ RegulaFalsiIter
    \/ IterativoLinearIter
    \/ NewtonIter
    \/ SecanteIter
    \/ MainBisseccao
    \/ MainIterativoLinear
    \/ MainNewton
    \/ MainSecante
    \/ MainRegulaFalsi
    \/ MainStore
    \/ MainWrite

Spec == Init /\ [][Next]_vars

(***************************************************************************)
(* Vocabulary of the properties.                                           *)
(***************************************************************************)
Active == method # "none"

Bracketing == method \in {"bisseccao", "regula_falsi"}

Returned == Active /\ pc = "returned"

Raised == Active /\ pc = "raised"

NRows == Len(fr.rows)

\* what expression e is known to give at p: its computed value, or what it has shown
Shown(e, p) ==
    IF IsOpaque(e) THEN {t[3] : t \in Known(memo, e, p)} ELSE {Compute(e, p)}

Shows(e, p, w) == EvalOk(w) \in Shown(e, p)

\* the estimate a record carries
Estimate(row) == IF "x" \in DOMAIN row THEN row["x"] ELSE row["x_{k+1}"]

\* the convergence criterion read on the fields of a record
RowMeets(row, t) ==
    \/ ("f(x)" \in DOMAIN row /\ Lt(AbsQ(row["f(x)"]), t))
    \/ ("f(x_k)" \in DOMAIN row /\ Lt(AbsQ(row["f(x_k)"]), t))
    \/ Lt(row["erro"], t)

\* u * w > 0 and u * w <= 0 on fractions with positive denominators
ProductPositive(u, w) == u[1] * w[1] > 0

Distance(p, q) ==
    LET n == p[1] * q[2] - q[1] * p[2]
    IN  Q(IF n < 0 THEN -n ELSE n, p[2] * q[2])

SignError == exc \in {BisseccaoError, RegulaFalsiError}

C2_SignPrecondition ==
    (Bracketing /\ args.a # None) =>
        LET e == fr.f_expr
            va == {r.v : r \in {q \in Shown(e, args.a) : q.ok}}
            vb == {r.v : r \in {q \in Shown(e, args.b) : q.ok}}
        IN  /\ (\E u \in va, w \in vb : ProductPositive(u, w)) =>
                  /\ pc = "raised"
                  /\ SignError
                  /\ fr.rows = <<>>
                  /\ evals = <<Call(e, args.a), Call(e, args.b)>>
            /\ (pc = "raised" /\ SignError) =>
                  (\E u \in va, w \in vb : ProductPositive(u, w))

C2_Witness ==
    /\ Raised
    /\ method = "regula_falsi"
    /\ exc = RegulaFalsiError
    /\ fr.fa # fr.fb

(***************************************************************************)
(* C3. In main every block leaves its entry in results and hands control   *)
(* to the next block whatever the outcome of its method: a block whose     *)
(* required parameter is missing stores the empty sequence, a call that    *)
(* raised stores the one record {iter: 0, erro_msg: text of the error}, a  *)
(* call that returned stores exactly the returned sequence; the entries of *)
(* the earlier blocks are kept, and when main is done results has an entry *)
(* for each of the five methods.                                           *)
(***************************************************************************)
Missing(name) ==
    CASE name = "Bissecção" ->
           params.function = NoExpr \/ params.a = None \/ params.b = None
      [] name = "Iterativo Linear (Ponto Fixo)" ->
           params.g = NoExpr \/ params.x0 = None
      [] name = "Newton" ->
           params.function = NoExpr \/ params.derivative = NoExpr \/ params.x0 = None
      [] name = "Secante" ->
           params.function = NoExpr \/ params.x0 = None \/ params.x1 = None
      [] name = "Regula Falsi" ->
           params.function = NoExpr \/ params.a = None \/ params.b = None

Stores(name, value) ==
    /\ DOMAIN results' = DOMAIN results \cup {name}
    /\ results'[name] = value
    /\ \A n \in DOMAIN results \ {name} : results'[n] = results[n]
    /\ mpc' = AfterBlock(name)

C3_BlockStep ==
    mpc \in BlockNames =>
        /\ (pc = "raised") =>
               Stores(mpc, <<("iter" :> 0) @@ ("erro_msg" :> exc.msg)>>)
        /\ (pc = "returned") => Stores(mpc, fr.rows)
        /\ (pc = "idle" /\ Missing(mpc)) => Stores(mpc, <<>>)
        /\ (pc = "idle" /\ ~Missing(mpc)) => (pc' # "idle" /\ mpc' = mpc)

C3_Entries ==
    /\ \A i \in 1 .. Len(Blocks) :
           mpc = Blocks[i] => DOMAIN results = {Blocks[j] : j \in 1 .. (i - 1)}
    /\ mpc \in {"write", "done"} =>
           /\ DOMAIN results = BlockNames
           /\ \A n \in BlockNames :
                  /\ Missing(n) => results[n] = <<>>
                  /\ (~Missing(n) /\ params.max_iter >= 1) => results[n] # <<>>

C3_FailuresIsolated == [][C3_BlockStep]_vars /\ []C3_Entries

HasErrorRow(name) == Len(results[name]) = 1 /\ results[name][1]["iter"] = 0

C3_Witness ==
    /\ mpc = "done"
    /\ HasErrorRow("Bissecção")
    /\ results["Iterativo Linear (Ponto Fixo)"] = <<>>
    /\ HasErrorRow("Newton")
    /\ Len(results["Secante"]) >= 2
    /\ HasErrorRow("Regula Falsi")

(***************************************************************************)
(* C4. The convergence test is made once per iteration, on the record just *)
(* appended, as the disjunction of |f| < tol and erro < tol (erro alone    *)
(* for iterativo_linear): no record but the last of a sequence meets it,   *)
(* no record meets it while the loop goes on, and a returned sequence      *)
(* shorter than max_iter ends with a record that meets it.                 *)
(***************************************************************************)
C4_StopsAtFirstMeeting ==
    Active =>
        /\ \A i \in 1 .. NRows :
               (i < NRows \/ pc = "loop") => ~RowMeets(fr.rows[i], fr.tol)
        /\ (pc = "returned" /\ NRows < fr.max_iter) =>
               (NRows >= 1 /\ RowMeets(fr.rows[NRows], fr.tol))

\* a Newton run stopped by the step size alone, before the cap
C4_Witness ==
    /\ Returned
    /\ method = "newton"
    /\ NRows = 2
    /\ fr.max_iter > 2
    /\ ~Lt(AbsQ(fr.rows[2]["f(x)"]), fr.tol)
    /\ Lt(fr.rows[2]["erro"], fr.tol)

(***************************************************************************)
(* C5. regula_falsi on a bracket with f(a) = f(b), max_iter >= 1.          *)
(* As claimed: the call always raises the numeric (division by zero)       *)
(* error.                                                                  *)
(* As the code has it: when the common value is zero the call raises the   *)
(* ZeroDivisionError of the interpolation, before any record; when it is   *)
(* not zero the call raises the opposite-sign error instead.  Either way   *)
(* no record is produced, hence none with an infinite or NaN estimate.     *)
(***************************************************************************)
EndpointValues ==
    {r.v : r \in {q \in Shown(fr.f_expr, args.a) \cap Shown(fr.f_expr, args.b) : q.ok}}

Degenerate ==
    /\ method = "regula_falsi"
    /\ args.a # None
    /\ fr.max_iter >= 1
    /\ EndpointValues # {}

NewtonIterates == {args.x0} \cup {fr.rows[i]["x"] : i \in 1 .. NRows}

\* the estimates an iteration has been run from
NewtonStarts ==
    IF pc # "raised" /\ NRows = 0 THEN {}
    ELSE {args.x0} \cup {fr.rows[i]["x"] :
                           i \in 1 .. (IF pc = "raised" THEN NRows ELSE NRows - 1)}

C6_NoReturnOnZeroDerivative ==
    (method = "newton" /\ pc = "returned" /\ fr.max_iter >= 1) =>
        \A p \in NewtonIterates : ~Shows(fr.df_expr, p, Zero)

C6_ZeroDerivative ==
    (method = "newton" /\ args.x0 # None) =>
        /\ \A i \in 1 .. NRows : fr.rows[i]["f'(x)"] # Zero
        /\ \A p \in NewtonStarts :
               Shows(fr.df_expr, p, Zero) =>
                   /\ pc = "raised"
                   /\ p = fr.x
                   /\ \/ exc = NewtonError
                      \/ exc = EvalError /\ EvalFails \in Shown(fr.f_expr, p)
        /\ (pc = "raised" /\ exc = NewtonError) => Shows(fr.df_expr, fr.x, Zero)

\* the derivative vanishes at an estimate produced by an update
C6_Witness ==
    /\ Raised
    /\ method = "newton"
    /\ exc = NewtonError
    /\ NRows >= 1

(***************************************************************************)
(* C7. secante and equal consecutive f-values.                             *)
(* As claimed: no run with max_iter >= 1 returns when two consecutive      *)
(* estimates (taken here to be different points), the last pair included,  *)
(* have equal f-values.                                                    *)
(* As the code has it: the denominator is tested at the start of each      *)
(* iteration, before the convergence test, on the pair that iteration      *)
(* starts from; every record was produced from a pair with different       *)
(* f-values, and the zero-denominator error is raised exactly on a pair    *)
(* with equal ones.  The pair (x_k, x_{k+1}) of the last record is not     *)
(* tested.                                                                 *)
(***************************************************************************)
SecanteEstimates ==
    <<args.x0, args.x1>> \o [i \in 1 .. NRows |-> fr.rows[i]["x_{k+1}"]]

EqualValues(p, q) ==
    \E r \in Shown(fr.f_expr, p) \cap Shown(fr.f_expr, q) : r.ok

C7_NoReturnOnEqualValues ==
    (method = "secante" /\ pc = "returned" /\ fr.max_iter >= 1) =>
        \A i \in 1 .. (Len(SecanteEstimates) - 1) :
            SecanteEstimates[i] # SecanteEstimates[i + 1] =>
                ~EqualValues(SecanteEstimates[i], SecanteEstimates[i + 1])

C7_ZeroDenominator ==
    (method = "secante" /\ args.x0 # None) =>
        /\ \A i \in 1 .. NRows :
               /\ fr.rows[i]["x_{k-1}"] = SecanteEstimates[i]
               /\ fr.rows[i]["x_k"] = SecanteEstimates[i + 1]
               /\ ~EqualValues(SecanteEstimates[i], SecanteEstimates[i + 1])
        /\ (pc = "raised" /\ exc = SecanteError) =>
               /\ EqualValues(fr.x_prev, fr.x)
               /\ fr.x_prev = SecanteEstimates[NRows + 1]
               /\ fr.x = SecanteEstimates[NRows + 2]
        /\ (pc = "raised" /\ exc # SecanteError /\ fr.fx # None) =>
               ~EqualValues(SecanteEstimates[NRows], SecanteEstimates[NRows + 1])

\* a later pair with equal values
C7_Witness ==
    /\ Raised
    /\ method = "secante"
    /\ exc = SecanteError
    /\ NRows >= 1

(***************************************************************************)
(* C8. The erro field.                                                     *)
(* As claimed: the first record of every method has erro = NaN.            *)
(* As the code has it: the first erro is NaN in bisseccao and regula_falsi *)
(* only, where a run that stops at iteration 1 before the cap stops on     *)
(* |f(x)| < tol; in iterativo_linear and newton the first erro is the      *)
(* distance from x0 to the first estimate and in secante the distance from *)
(* x1, so these runs can stop at iteration 1 on the step size.  From       *)
(* iteration 2 on, erro is the distance between the estimates of the       *)
(* record and of the one before it, in all five methods.                   *)
(***************************************************************************)
C8_FirstErroNaN ==
    (Returned /\ NRows >= 1) => fr.rows[1]["erro"] = NaN

C8_Erro ==
    (Active /\ NRows >= 1) =>
        /\ Bracketing =>
               /\ fr.rows[1]["erro"] = NaN
               /\ (pc = "returned" /\ NRows = 1 /\ fr.max_iter > 1) =>
                      Lt(AbsQ(fr.rows[1]["f(x)"]), fr.tol)
        /\ method \in {"iterativo_linear", "newton"} =>
               fr.rows[1]["erro"] = Distance(fr.rows[1]["x"], args.x0)
        /\ method = "secante" =>
               fr.rows[1]["erro"] = Distance(fr.rows[1]["x_{k+1}"], args.x1)
        /\ \A i \in 2 .. NRows :
               fr.rows[i]["erro"] =
                   Distance(Estimate(fr.rows[i]), Estimate(fr.rows[i - 1]))

\* a Newton run stopped at iteration 1 by the step size alone
C8_Witness ==
    /\ Returned
    /\ method = "newton"
    /\ NRows = 1
    /\ fr.max_iter > 1
    /\ ~Lt(AbsQ(fr.rows[1]["f(x)"]), fr.tol)
    /\ Lt(fr.rows[1]["erro"], fr.tol)

(***************************************************************************)
(* C9. In bisseccao each record's x is the midpoint of its a and b, and    *)
(* from one record to the next exactly one of a, b changes, to the x of    *)
(* the earlier record, so that b - a is halved.                            *)
(***************************************************************************)
C9_BracketHalved ==
    method = "bisseccao" =>
        /\ \A i \in 1 .. NRows :
               Add(fr.rows[i]["x"], fr.rows[i]["x"]) = Add(fr.rows[i]["a"], fr.rows[i]["b"])
        /\ \A i \in 1 .. (NRows - 1) :
               LET r == fr.rows[i]
                   n == fr.rows[i + 1]
               IN  /\ Add(Sub(n["b"], n["a"]), Sub(n["b"], n["a"])) = Sub(r["b"], r["a"])
                   /\ \/ n["a"] = r["x"] /\ n["b"] = r["b"] /\ n["a"] # r["a"]
                      \/ n["b"] = r["x"] /\ n["a"] = r["a"] /\ n["b"] # r["b"]

C9_Witness ==
    /\ Returned
    /\ method = "bisseccao"
    /\ NRows >= 3
    /\ fr.rows[2]["a"] # fr.rows[1]["a"]
    /\ fr.rows[3]["b"] # fr.rows[2]["b"]

(***************************************************************************)
(* C10. In bisseccao and regula_falsi, once the sign test has passed,      *)
(* every record has endpoints with f(a) * f(b) <= 0, and fa, fb are the    *)
(* values of f at the current a, b.                                        *)
(***************************************************************************)
C10_BracketKept ==
    (Bracketing /\ pc \in {"loop", "returned"}) =>
        /\ \A i \in 1 .. NRows :
               \A u \in Shown(fr.f_expr, fr.rows[i]["a"]),
                  w \in Shown(fr.f_expr, fr.rows[i]["b"]) :
                   ~ProductPositive(u.v, w.v)
        /\ Shows(fr.f_expr, fr.a, fr.fa)
        /\ Shows(fr.f_expr, fr.b, fr.fb)

====
